---- MODULE Spec2Model ----
(***************************************************************************)
(* A model of roster-printer.py: one batch run that loads a configuration, *)
(* locates the newest roster spreadsheet, reads it, merges columns, and    *)
(* renders and dispatches one document per session.                        *)
(*                                                                         *)
(* Text (cell strings, file names, titles) is a sequence of one-character  *)
(* strings, so that joining, formatting and substring tests are computed.  *)
(* Column names and configuration keys are plain strings.                  *)
(***************************************************************************)
EXTENDS Integers, Sequences, FiniteSets, TLC

\* Largest number of data rows of a roster file.
MaxRows == 3

----------------------------------------------------------------------------
\* Cell values of a DataFrame: a string, a number, or missing (NaN).

Str(s) == [k |-> "str", s |-> s, n |-> 0]
Num(n) == [k |-> "num", s |-> <<>>, n |-> n]
NaN == [k |-> "na", s |-> <<>>, n |-> 0]

\* pd.isna / Series.dropna
isna(v) == v.k = "na"

\* str() of a non-negative integer
RECURSIVE Digits(_)
Digits(n) ==
    LET d == <<"0", "1", "2", "3", "4", "5", "6", "7", "8", "9">>[(n % 10) + 1]
    IN IF n < 10 THEN <<d>> ELSE Digits(n \div 10) \o <<d>>

\* astype(str) / f"{session}": the text of a value; NaN formats as "nan"
ToStr(v) ==
    IF v.k = "str" THEN v.s
    ELSE IF v.k = "num" THEN Digits(v.n)
    ELSE <<"n", "a", "n">>

\* The `==` of DataFrame.query: NaN compares unequal to everything, itself
\* included.
PdEq(a, b) == ~isna(a) /\ ~isna(b) /\ a = b

\* str.join
RECURSIVE Join(_, _)
Join(sep, parts) ==
    IF parts = <<>> THEN <<>>
    ELSE IF Len(parts) = 1 THEN parts[1]
    ELSE parts[1] \o sep \o Join(sep, Tail(parts))

\* `sub in text`
RECURSIVE Contains(_, _)
Contains(text, sub) ==
    IF Len(sub) > Len(text) THEN FALSE
    ELSE IF SubSeq(text, 1, Len(sub)) = sub THEN TRUE
    ELSE Contains(Tail(text), sub)

Range(f) == {f[x] : x \in DOMAIN f}

----------------------------------------------------------------------------
\* The texts the inputs are built from.

tA == <<"A">>
tB == <<"B">>
tAB == <<"A", "/", "B">>
tAnn == <<"A", "n", "n">>
tDate == <<"M", "o", "n">>
tRoster == <<"R", "o", "s", "t", "e", "r">>
tSpace == <<" ">>
tDash == <<"-">>
tPattern == <<"r", "o">>
tSearchDir == <<"d">>

\* The columns of every roster file of the model, in file order.
FileColumns == <<"Date", "Class", "First", "Last">>

\* A row of a roster file
FileRow(class, first, last) ==
    [c \in Range(FileColumns) |->
        CASE c = "Date" -> Str(tDate)
          [] c = "Class" -> class
          [] c = "First" -> first
          [] c = "Last" -> last]

\* The rows a roster file may hold: the class is one of two plain names, a
\* name with a path separator in it, or missing; the first name is a string
\* or missing; the last column is a number or missing.
FileRows ==
    { FileRow(Str(tA), Str(tAnn), Num(12)),
      FileRow(Str(tA), Str(tAnn), NaN),
      FileRow(Str(tA), NaN, NaN),
      FileRow(Str(tB), NaN, Num(12)),
      FileRow(NaN, Str(tAnn), Num(12)),
      FileRow(Str(tAB), Str(tAnn), Num(12)) }

RECURSIVE SeqsUpTo(_, _)
SeqsUpTo(S, n) ==
    IF n = 0 THEN {<<>>}
    ELSE LET shorter == SeqsUpTo(S, n - 1)
         IN shorter \cup {Append(s, x) : s \in {t \in shorter : Len(t) = n - 1}, x \in S}

\* pd.read_csv / pd.read_excel: a table with a default 0..n-1 index
DataFrame(rows) ==
    [columns |-> FileColumns,
     index |-> [j \in 1..Len(rows) |-> j - 1],
     rows |-> rows]

Rosters == {DataFrame(rows) : rows \in SeqsUpTo(FileRows, MaxRows)}

EmptyFrame == DataFrame(<<>>)

----------------------------------------------------------------------------
\* Configuration: the mapping yaml.safe_load returns.  `keys` is the set of
\* keys present in the file; a field is read only when its key is present.

\* The rules of modify-columns the configurations are built from.
MergeName == [new_name |-> "Name", old_columns |-> <<"First", "Last">>, separator |-> tSpace]
MergeFull == [new_name |-> "Full", old_columns |-> <<"Name", "Class">>, separator |-> tDash]
MergeOntoClass == [new_name |-> "Class", old_columns |-> <<"First">>, separator |-> tSpace]

RuleLists ==
    { <<>>,
      <<MergeName>>,
      <<MergeName, MergeFull>>,
      <<MergeFull, MergeName>>,
      <<MergeName, MergeName>>,
      <<MergeName, MergeFull, MergeOntoClass>>,
      <<MergeOntoClass>> }

MkConfig(keys, columns, extra, rules) ==
    [keys |-> keys,
     search_dir |-> tSearchDir,
     spreadsheet_pattern |-> tPattern,
     columns_to_print |-> columns,
     class_column_name |-> "Class",
     title_suffix |-> tRoster,
     date_column |-> "Date",
     use_extra_row |-> extra,
     modify_columns |-> rules]

\* The four keys a usable configuration file holds, and the two every run
\* that prints reads as well.
BaseKeys == {"spreadsheet-pattern", "columns-to-print", "class-column-name", "search-dir"}
FullKeys == BaseKeys \cup {"title-suffix", "date-column"}

\* Configuration files that differ in the keys they hold.
KeyConfigs ==
    {MkConfig(ks, <<"First", "Last">>, <<>>, <<>>) : ks \in SUBSET FullKeys}

\* Configuration files that differ in their modify-columns rules.
RuleConfigs ==
    {MkConfig(FullKeys \cup {"modify-columns"}, <<"Class", "Name">>, <<>>, rules) :
        rules \in RuleLists}

\* Configuration files that differ in the printed columns and the extra-row
\* columns: one extra-row column at each position, and two of them.
LayoutConfigs ==
    {MkConfig(FullKeys \cup {"use-extra-row"}, columns, extra, <<>>) :
        columns \in {<<"First", "Last">>, <<"Last", "First">>, <<"Class", "First", "Last">>},
        extra \in {<<"Last">>, <<"First">>}}
    \cup {MkConfig(FullKeys \cup {"use-extra-row"}, <<"Class", "First", "Last">>,
                   <<"First", "Last">>, <<>>)}

Configs == KeyConfigs \cup RuleConfigs \cup LayoutConfigs

----------------------------------------------------------------------------
\* The search directory: os.listdir order, each entry with its mtime.

fOther == [name |-> <<"x", ".", "c", "s", "v">>, mtime |-> 9]
fOld == [name |-> <<"r", "o", ".", "c", "s", "v">>, mtime |-> 1]
fNew == [name |-> <<"r", "o", "2", ".", "c", "s", "v">>, mtime |-> 3]
fTxt == [name |-> <<"r", "o", ".", "t", "x", "t">>, mtime |-> 2]

Listings == { <<>>, <<fOther>>, <<fTxt>>, <<fOther, fOld, fNew>> }

\* os.path.join(search_dir, filename)
PathJoin(dir, name) == dir \o <<"/">> \o name

\* os.path.getmtime of a path of the search directory
GetMTime(listing, path) ==
    LET e == CHOOSE e \in Range(listing) : PathJoin(tSearchDir, e.name) = path
    IN e.mtime

\* find_latest_spreadsheet: the loop over the listing, `newest_file` carried along
RECURSIVE FindLatestFrom(_, _, _, _)
FindLatestFrom(listing, j, search_str, newest_file) ==
    IF j > Len(listing) THEN newest_file
    ELSE LET filename == listing[j].name
             full_path == PathJoin(tSearchDir, filename)
         IN IF ~Contains(filename, search_str)
            THEN FindLatestFrom(listing, j + 1, search_str, newest_file)
            ELSE IF newest_file = <<>>
                    \/ GetMTime(listing, full_path) > GetMTime(listing, newest_file)
                 THEN FindLatestFrom(listing, j + 1, search_str, full_path)
                 ELSE FindLatestFrom(listing, j + 1, search_str, newest_file)

find_latest_spreadsheet(listing, search_str) ==
    FindLatestFrom(listing, 1, search_str, <<>>)

\* os.path.splitext(path)[1][1:]: the text after the last dot of the path
RECURSIVE Extension(_)
Extension(path) ==
    IF path = <<>> THEN <<>>
    ELSE IF ~Contains(path, <<".">>) THEN <<>>
    ELSE IF Contains(Tail(path), <<".">>) THEN Extension(Tail(path))
    ELSE IF path[1] = "." THEN Tail(path)
    ELSE Extension(Tail(path))

ExcelExtensions ==
    { <<"x", "l", "s">>, <<"x", "l", "s", "x">>, <<"x", "l", "s", "m">>,
      <<"x", "l", "s", "b">>, <<"o", "d", "f">>, <<"o", "d", "s">>, <<"o", "d", "t">> }

----------------------------------------------------------------------------
\* DataFrame operations used by the run.

\* The key list with one entry left out
required_keys_short == <<"spreadsheet-pattern", "class-column-name", "search-dir">>

\* config_to_check.keys() must hold each of these
required_keys == <<"spreadsheet-pattern", "columns-to-print", "class-column-name", "search-dir">>

\* The merge without dropna(): missing values are formatted like the others
MergedValueKeepingMissing(row, rule) ==
    LET vals == [j \in 1..Len(rule.old_columns) |-> row[rule.old_columns[j]]]
    IN Str(Join(rule.separator, [j \in 1..Len(vals) |-> ToStr(vals[j])]))

\* x.dropna().astype(str), joined by the separator: the merged cell of a row
MergedValue(row, rule) ==
    LET vals == [j \in 1..Len(rule.old_columns) |-> row[rule.old_columns[j]]]
        kept == SelectSeq(vals, LAMBDA v : ~isna(v))
    IN Str(Join(rule.separator, [j \in 1..Len(kept) |-> ToStr(kept[j])]))

\* The assignment followed by a drop of the merged columns
MergedColumnsDropping(columns, rule) ==
    Append(SelectSeq(columns, LAMBDA c : c \notin Range(rule.old_columns)), rule.new_name)

\* The column labels after `roster_df[new_name] = ...` for a new label
MergedColumns(columns, rule) == Append(columns, rule.new_name)

\* roster_df[new_name] = roster_df[old_columns].apply(..., axis=1)
ApplyRule(df, rule) ==
    [df EXCEPT
        !.columns = MergedColumns(df.columns, rule),
        !.rows = [j \in 1..Len(df.rows) |->
                    [c \in DOMAIN df.rows[j] \cup {rule.new_name} |->
                        IF c = rule.new_name
                        THEN MergedValue(df.rows[j], rule)
                        ELSE df.rows[j][c]]]]

\* The membership test made against the columns of the file as read
NameExistsInFile(df, rule) == rule.new_name \in Range(FileColumns)

\* modify_data["new-name"] in roster_df.columns
NameExists(df, rule) == rule.new_name \in Range(df.columns)

\* pd.unique: the distinct values in order of first appearance
RECURSIVE UniqueFrom(_, _, _)
UniqueFrom(vals, j, seen) ==
    IF j > Len(vals) THEN seen
    ELSE IF vals[j] \in Range(seen) THEN UniqueFrom(vals, j + 1, seen)
    ELSE UniqueFrom(vals, j + 1, Append(seen, vals[j]))

unique(vals) == UniqueFrom(vals, 1, <<>>)

\* roster[column].values
ColumnValues(df, column) == [j \in 1..Len(df.rows) |-> df.rows[j][column]]

\* The positions of the rows roster.query("<column> == @session") keeps
RECURSIVE QueryFrom(_, _, _, _)
QueryFrom(df, column, session, j) ==
    IF j > Len(df.rows) THEN <<>>
    ELSE IF PdEq(df.rows[j][column], session)
         THEN <<j>> \o QueryFrom(df, column, session, j + 1)
         ELSE QueryFrom(df, column, session, j + 1)

\* roster.query(...)[columns]: the kept rows, with their index labels,
\* restricted to `columns`
SessionFrame(df, column, session, columns) ==
    LET pos == QueryFrom(df, column, session, 1)
    IN [columns |-> columns,
        index |-> [j \in 1..Len(pos) |-> df.index[pos[j]]],
        rows |-> [j \in 1..Len(pos) |-> [c \in Range(columns) |-> df.rows[pos[j]][c]]]]

----------------------------------------------------------------------------
\* roster_to_pdf: the table of one document.

\* [x for x in config['columns-to-print'] if x not in config.get('use-extra-row', [])]
NormalCols(cfg) ==
    LET extra == IF "use-extra-row" \in cfg.keys THEN cfg.use_extra_row ELSE <<>>
    IN SelectSeq(cfg.columns_to_print, LAMBDA x : x \notin Range(extra))

\* roster.values.tolist(): each row as the list of its values in column order
ValuesList(frame) ==
    [j \in 1..Len(frame.rows) |->
        [n \in 1..Len(frame.columns) |-> frame.rows[j][frame.columns[n]]]]

\* The extra rows one data row opens: one for each value at a position past
\* the normal columns that is not missing
RECURSIVE ExtraRows(_, _, _, _)
ExtraRows(data_row, n, width, fill) ==
    IF n > Len(data_row) THEN <<>>
    ELSE IF n > width /\ ~isna(data_row[n])
         THEN <<[kind |-> "span", cells |-> <<data_row[n]>>, colspan |-> width, fill |-> fill]>>
              \o ExtraRows(data_row, n + 1, width, fill)
         ELSE ExtraRows(data_row, n + 1, width, fill)

\* The table rows the loop emits for the data row at position j of the
\* enumeration (the header is position 0): the row of normal cells, then its
\* extra rows
TableRows(data_row, j, width) ==
    LET fill == IF j % 2 = 0 THEN 200 ELSE 255
        last == IF Len(data_row) < width THEN Len(data_row) ELSE width
        cells == [n \in 1..last |->
                    IF isna(data_row[n]) THEN Str(<<>>) ELSE data_row[n]]
    IN <<[kind |-> "normal", cells |-> cells, colspan |-> 1, fill |-> fill]>>
       \o ExtraRows(data_row, 1, width, fill)

RECURSIVE TableBody(_, _, _)
TableBody(values, j, width) ==
    IF j > Len(values) THEN <<>>
    ELSE TableRows(values[j], j, width) \o TableBody(values, j + 1, width)

\* The document roster_to_pdf writes for one session
roster_to_pdf(frame, file_path, title, session, cfg) ==
    [title |-> title,
     path |-> file_path,
     session |-> session,
     frame |-> frame,
     header |-> NormalCols(cfg),
     body |-> TableBody(ValuesList(frame), 1, Len(NormalCols(cfg)))]

\* A title the file system refuses as a file name inside the working directory
InvalidFileName(title) == Contains(title, <<"/">>)

----------------------------------------------------------------------------
\* Run mode and working directories.

\* PRINT_ROSTERS = not DEBUG
PRINT_ROSTERS(debug) == ~debug
\* USE_TEMPDIR = not DEBUG
USE_TEMPDIR(debug) == ~debug

\* The branch on PRINT_ROSTERS left out
StartfileAlwaysPrint(debug) == "print"

\* The operation print_roster hands to os.startfile
StartfileOperation(debug) == IF PRINT_ROSTERS(debug) THEN "print" ELSE "open"

\* The directory TemporaryDirectory() creates, and the fixed ".temp"
tTempDir == <<"t", "m", "p">>
tLocalDir == <<".", "t", "e", "m", "p">>

WorkingDir(debug) == IF USE_TEMPDIR(debug) THEN tTempDir ELSE tLocalDir

----------------------------------------------------------------------------
\* The run.

VARIABLES
    pc,                 \* the statement of __main__ the run is at
    DEBUG,              \* ROSTER_PRINTER_DEBUG == "True"
    config,             \* the configuration file's mapping
    listing,            \* the entries of the search directory
    listed,             \* os.listdir has been called
    newest_spreadsheet, \* the path find_latest_spreadsheet returned
    opened,             \* the roster file has been opened for reading
    roster_df,          \* the roster table
    session_date_str,   \* metadata['session_date_str']
    rule,               \* position in config["modify-columns"] (1-based)
    sessions,           \* pd.unique of the class column
    k,                  \* position in `sessions` (1-based)
    dirs,               \* state of the transient and of the ".temp" directory
    docs,               \* the documents written, in order
    dispatched,         \* the os.startfile calls made, in order
    waited,             \* time.sleep after the session loop has returned
    error               \* the exception that ended the run, or "none"

vars == <<pc, DEBUG, config, listing, listed, newest_spreadsheet, opened, roster_df,
          session_date_str, rule, sessions, k, dirs, docs, dispatched, waited, error>>

Init ==
    /\ pc = "load"
    /\ DEBUG \in BOOLEAN
    /\ config \in Configs
    /\ listing \in Listings
    /\ listed = FALSE
    /\ newest_spreadsheet = <<>>
    /\ opened = FALSE
    /\ roster_df = EmptyFrame
    /\ session_date_str = NaN
    /\ rule = 1
    /\ sessions = <<>>
    /\ k = 1
    /\ dirs \in {[temp |-> "absent", local |-> l] : l \in {"absent", "exists"}}
    /\ docs = <<>>
    /\ dispatched = <<>>
    /\ waited = FALSE
    /\ error = "none"

\* The run ends with exception `e`; every other variable named stays
Raise(e) ==
    /\ pc' = "failed"
    /\ error' = e

\* with open(CONFIG_FILE) as f: config = yaml.safe_load(f)
LoadConfig ==
    /\ pc = "load"
    /\ pc' = "check"
    /\ UNCHANGED <<DEBUG, config, listing, listed, newest_spreadsheet, opened, roster_df,
                   session_date_str, rule, sessions, k, dirs, docs, dispatched, waited,
                   error>>

\* check_for_required_config(config)
check_for_required_config ==
    /\ pc = "check"
    /\ IF \E j \in 1..Len(required_keys) : required_keys[j] \notin config.keys
       THEN Raise("KeyError")
       ELSE pc' = "locate" /\ error' = error
    /\ UNCHANGED <<DEBUG, config, listing, listed, newest_spreadsheet, opened, roster_df,
                   session_date_str, rule, sessions, k, dirs, docs, dispatched, waited>>

\* newest_spreadsheet = find_latest_spreadsheet(config["search-dir"],
\*                                              config["spreadsheet-pattern"])
LocateSpreadsheet ==
    /\ pc = "locate"
    /\ IF {"search-dir", "spreadsheet-pattern"} \subseteq config.keys
       THEN /\ listed' = TRUE
            /\ newest_spreadsheet' =
                   find_latest_spreadsheet(listing, config.spreadsheet_pattern)
            /\ pc' = "read"
            /\ error' = error
       ELSE /\ Raise("KeyError")
            /\ UNCHANGED <<listed, newest_spreadsheet>>
    /\ UNCHANGED <<DEBUG, config, listing, opened, roster_df, session_date_str, rule,
                   sessions, k, dirs, docs, dispatched, waited>>

\* os.path.getmtime(newest_spreadsheet), then the file is opened and parsed
\* by the reader its extension selects
ReadRoster ==
    /\ pc = "read"
    /\ IF newest_spreadsheet = <<>>
       THEN /\ Raise("FileNotFoundError")
            /\ UNCHANGED <<opened, roster_df>>
       ELSE /\ opened' = TRUE
            /\ IF Extension(newest_spreadsheet) = <<"c", "s", "v">>
                  \/ Extension(newest_spreadsheet) \in ExcelExtensions
               THEN /\ roster_df' \in Rosters
                    /\ pc' = "date"
                    /\ error' = error
               ELSE /\ Raise("ValueError: File type not supported")
                    /\ UNCHANGED roster_df
    /\ UNCHANGED <<DEBUG, config, listing, listed, newest_spreadsheet, session_date_str,
                   rule, sessions, k, dirs, docs, dispatched, waited>>

\* session_date = roster_df[config.get("date-column")].values[0]
SessionDate ==
    /\ pc = "date"
    /\ IF "date-column" \notin config.keys \/ config.date_column \notin Range(roster_df.columns)
       THEN /\ Raise("KeyError")
            /\ UNCHANGED session_date_str
       ELSE IF Len(roster_df.rows) = 0
       THEN /\ Raise("IndexError")
            /\ UNCHANGED session_date_str
       ELSE /\ session_date_str' = roster_df.rows[1][config.date_column]
            /\ pc' = "modify"
            /\ error' = error
    /\ UNCHANGED <<DEBUG, config, listing, listed, newest_spreadsheet, opened, roster_df,
                   rule, sessions, k, dirs, docs, dispatched, waited>>

\* One turn of `for modify_data in config["modify-columns"]`
ModifyColumns ==
    /\ pc = "modify"
    /\ "modify-columns" \in config.keys
    /\ rule <= Len(config.modify_columns)
    /\ LET modify_data == config.modify_columns[rule]
       IN IF NameExists(roster_df, modify_data)
          THEN /\ Raise("ValueError: new column name already exists")
               /\ UNCHANGED <<roster_df, rule>>
          ELSE IF ~(Range(modify_data.old_columns) \subseteq Range(roster_df.columns))
          THEN /\ Raise("KeyError")
               /\ UNCHANGED <<roster_df, rule>>
          ELSE /\ roster_df' = ApplyRule(roster_df, modify_data)
               /\ rule' = rule + 1
               /\ UNCHANGED <<pc, error>>
    /\ UNCHANGED <<DEBUG, config, listing, listed, newest_spreadsheet, opened,
                   session_date_str, sessions, k, dirs, docs, dispatched, waited>>

\* The loop is over, or there is no "modify-columns" key: print_all_sessions
\* is called and acquires its working directory, then takes the sessions
EnterPrintAllSessions ==
    /\ pc = "modify"
    /\ "modify-columns" \in config.keys => rule > Len(config.modify_columns)
    /\ IF USE_TEMPDIR(DEBUG)
       THEN IF config.class_column_name \in Range(roster_df.columns)
            THEN /\ dirs' = [dirs EXCEPT !.temp = "exists"]
                 /\ sessions' = unique(ColumnValues(roster_df, config.class_column_name))
                 /\ pc' = "session"
                 /\ error' = error
            ELSE /\ dirs' = [dirs EXCEPT !.temp = "deleted"]
                 /\ Raise("KeyError")
                 /\ UNCHANGED sessions
       ELSE IF config.class_column_name \in Range(roster_df.columns)
            THEN /\ dirs' = [dirs EXCEPT !.local = "exists"]
                 /\ sessions' = unique(ColumnValues(roster_df, config.class_column_name))
                 /\ pc' = "session"
                 /\ error' = error
            ELSE /\ dirs' = [dirs EXCEPT !.local = "exists"]
                 /\ Raise("KeyError")
                 /\ UNCHANGED sessions
    /\ UNCHANGED <<DEBUG, config, listing, listed, newest_spreadsheet, opened, roster_df,
                   session_date_str, rule, k, docs, dispatched, waited>>

\* Leaving the `with TemporaryDirectory()` block on an exception deletes the
\* directory at once; the ".temp" directory is left alone
DirsAfterFailure ==
    IF USE_TEMPDIR(DEBUG) THEN [dirs EXCEPT !.temp = "deleted"] ELSE dirs

\* One turn of `for session in pd.unique(...)`: the query and projection,
\* then print_roster (roster_to_pdf, pdf.output, os.startfile)
PrintSession ==
    /\ pc = "session"
    /\ k <= Len(sessions)
    /\ LET session == sessions[k]
       IN IF ~("columns-to-print" \in config.keys
               /\ Range(config.columns_to_print) \subseteq Range(roster_df.columns))
          THEN /\ Raise("KeyError")
               /\ dirs' = DirsAfterFailure
               /\ UNCHANGED <<k, docs, dispatched>>
          ELSE IF "title-suffix" \notin config.keys
          THEN /\ Raise("KeyError")
               /\ dirs' = DirsAfterFailure
               /\ UNCHANGED <<k, docs, dispatched>>
          ELSE LET session_df == SessionFrame(roster_df, config.class_column_name,
                                              session, config.columns_to_print)
                   title == ToStr(session) \o tSpace \o config.title_suffix
                   tmp_file_path == PathJoin(WorkingDir(DEBUG), title \o <<".", "p", "d", "f">>)
               IN IF InvalidFileName(title)
                  THEN /\ Raise("FileNotFoundError")
                       /\ dirs' = DirsAfterFailure
                       /\ UNCHANGED <<k, docs, dispatched>>
                  ELSE /\ docs' = Append(docs,
                              roster_to_pdf(session_df, tmp_file_path, title, session, config))
                       /\ dispatched' = Append(dispatched,
                              [path |-> tmp_file_path,
                               operation |-> StartfileOperation(DEBUG),
                               dir |-> WorkingDir(DEBUG)])
                       /\ k' = k + 1
                       /\ UNCHANGED <<pc, error, dirs>>
    /\ UNCHANGED <<DEBUG, config, listing, listed, newest_spreadsheet, opened, roster_df,
                   session_date_str, rule, sessions, waited>>

\* time.sleep(10) / time.sleep(30) after the loop
Sleep ==
    /\ pc = "session"
    /\ k > Len(sessions)
    /\ waited' = TRUE
    /\ pc' = IF USE_TEMPDIR(DEBUG) THEN "cleanup" ELSE "complete"
    /\ UNCHANGED <<DEBUG, config, listing, listed, newest_spreadsheet, opened, roster_df,
                   session_date_str, rule, sessions, k, dirs, docs, dispatched, error>>

\* The end of the `with TemporaryDirectory()` block
CleanupTempDir ==
    /\ pc = "cleanup"
    /\ dirs' = [dirs EXCEPT !.temp = "deleted"]
    /\ pc' = "complete"
    /\ UNCHANGED <<DEBUG, config, listing, listed, newest_spreadsheet, opened, roster_df,
                   session_date_str, rule, sessions, k, docs, dispatched, waited, error>>

\* logger.info("Printing complete! Please close the window")
Complete ==
    /\ pc = "complete"
    /\ pc' = "done"
    /\ UNCHANGED <<DEBUG, config, listing, listed, newest_spreadsheet, opened, roster_df,
                   session_date_str, rule, sessions, k, dirs, docs, dispatched, waited,
                   error>>

Next ==
    \/ LoadConfig
    \/ check_for_required_config
    \/ LocateSpreadsheet
    \/ ReadRoster
    \/ SessionDate
    \/ ModifyColumns
    \/ EnterPrintAllSessions
    \/ PrintSession
    \/ Sleep
    \/ CleanupTempDir
    \/ Complete

Spec == Init /\ [][Next]_vars

----------------------------------------------------------------------------
\* Properties of the run.

Terminated == pc \in {"done", "failed"}

DuplicateError == error = "ValueError: new column name already exists"

\* The number of rules of modify-columns that have been applied
Applied == IF "modify-columns" \in config.keys THEN rule - 1 ELSE 0

\* The rule list in force
Rules == IF "modify-columns" \in config.keys THEN config.modify_columns ELSE <<>>

\* C1: a configuration that lacks a required key ends the run with a
\* configuration error right after the configuration is loaded: the search
\* directory is never listed, no roster file is opened, no document is
\* written and nothing is dispatched.
C1_MissingKey == ~(BaseKeys \subseteq config.keys)

C1_MissingKeyFailsBeforeIO ==
    (C1_MissingKey /\ pc \notin {"load", "check"}) =>
        /\ pc = "failed"
        /\ error = "KeyError"
        /\ ~listed
        /\ ~opened
        /\ dirs.temp = "absent"
        /\ docs = <<>>
        /\ dispatched = <<>>

C1_Witness == C1_MissingKey /\ pc = "failed" /\ error = "KeyError"

\* C2: with a configuration that holds the required keys and nothing more
\* (a title suffix at most) and a roster with N distinct class values, the
\* run ends without an error having written N documents, one per session,
\* each titled "<session> <title-suffix>".
C2_MinimalConfig ==
    /\ BaseKeys \subseteq config.keys
    /\ config.keys \subseteq BaseKeys \cup {"title-suffix"}

C2_MinimalConfigPrintsAll ==
    (C2_MinimalConfig /\ Terminated /\ Len(roster_df.rows) > 0) =>
        /\ pc = "done"
        /\ error = "none"
        /\ Len(docs) = Cardinality(Range(ColumnValues(roster_df, "Class")))
        /\ \A j \in 1..Len(docs) :
               docs[j].title = ToStr(docs[j].session) \o tSpace \o config.title_suffix

\* The columns the table holds after the first n rules if each rule removes
\* its source columns and appends its new column
RECURSIVE C3_ColumnsIfRemoved(_)
C3_ColumnsIfRemoved(n) ==
    IF n = 0 THEN FileColumns
    ELSE Append(SelectSeq(C3_ColumnsIfRemoved(n - 1),
                          LAMBDA c : c \notin Range(Rules[n].old_columns)),
                Rules[n].new_name)

\* The columns the table holds after the first n rules if each rule only
\* appends its new column
C3_ColumnsIfKept(n) == FileColumns \o [j \in 1..n |-> Rules[j].new_name]

\* C3 as stated: after each rule the columns are those before it minus the
\* rule's source columns, with the new column appended last.
C3_SourceColumnsRemoved == roster_df.columns = C3_ColumnsIfRemoved(Applied)

\* C3 as amended: after each rule the columns are exactly those before it,
\* source columns included, with the new column appended last; every row
\* holds a value for exactly these columns; with no rule applied the columns
\* are those of the file.
C3_NewColumnAppended ==
    opened /\ pc # "read" =>
        /\ roster_df.columns = C3_ColumnsIfKept(Applied)
        /\ \A j \in 1..Len(roster_df.rows) :
               DOMAIN roster_df.rows[j] = Range(roster_df.columns)

C3_Witness ==
    /\ Applied = 2
    /\ Range(Rules[2].old_columns) \cap {Rules[1].new_name} # {}
    /\ Len(roster_df.columns) = Len(FileColumns) + 2

\* C4 as stated: when a rule's new name already exists the run fails with
\* the table as it was before the first rule, and nothing rendered or
\* dispatched.
C4_TableRestored ==
    DuplicateError =>
        /\ roster_df.columns = FileColumns
        /\ docs = <<>>
        /\ dispatched = <<>>

\* C4 as amended: a rule is applied only when its new name is not yet a
\* column, so no column name ever occurs twice; when the name exists the run
\* fails with a duplicate-column error, nothing is rendered or dispatched and
\* no working directory is made, and the table holds the file's columns
\* followed by the columns the earlier rules of the list added.
C4_DuplicateAborts ==
    /\ \A a, b \in 1..Len(roster_df.columns) :
           roster_df.columns[a] = roster_df.columns[b] => a = b
    /\ DuplicateError =>
           /\ pc = "failed"
           /\ Rules[rule].new_name \in Range(roster_df.columns)
           /\ roster_df.columns = C3_ColumnsIfKept(rule - 1)
           /\ docs = <<>>
           /\ dispatched = <<>>
           /\ dirs.temp = "absent"

C4_Witness == DuplicateError /\ rule = 2 /\ Len(roster_df.rows) > 0

\* The extra-row columns of the configuration
C5_Extra == IF "use-extra-row" \in config.keys THEN config.use_extra_row ELSE <<>>

\* The columns-to-print that are not extra-row columns, in their order
C5_Normal == SelectSeq(config.columns_to_print, LAMBDA c : c \notin Range(C5_Extra))

\* The table a frame should give in extended mode: per data row, the values
\* of the normal columns under their headers, then one spanning row when a
\* value of an extra-row column is present
RECURSIVE C5_Layout(_, _)
C5_Layout(frame, j) ==
    IF j > Len(frame.rows) THEN <<>>
    ELSE LET r == frame.rows[j]
             cells == [n \in 1..Len(C5_Normal) |->
                          IF isna(r[C5_Normal[n]]) THEN Str(<<>>) ELSE r[C5_Normal[n]]]
             spans == IF \E c \in Range(C5_Extra) \cap Range(frame.columns) : ~isna(r[c])
                      THEN <<[kind |-> "span", cells |-> <<>>]>>
                      ELSE <<>>
         IN <<[kind |-> "normal", cells |-> cells]>> \o spans \o C5_Layout(frame, j + 1)

\* The rows of a written table: the kind of each, and the cells of the
\* normal ones
C5_Shape(body) ==
    [j \in 1..Len(body) |->
        [kind |-> body[j].kind,
         cells |-> IF body[j].kind = "normal" THEN body[j].cells ELSE <<>>]]

\* C5: in extended mode, wherever the extra-row columns stand in
\* columns-to-print, every data row's normal row holds the values of the
\* non-extra columns under their headers (missing ones as empty strings) and
\* exactly one spanning row follows it if and only if one of its extra-row
\* values is present.
C5_ExtendedLayout ==
    C5_Extra # <<>> =>
        \A j \in 1..Len(docs) :
            /\ docs[j].header = C5_Normal
            /\ C5_Shape(docs[j].body) = C5_Layout(docs[j].frame, 1)

\* The distinct values of a sequence, each at its first appearance
RECURSIVE C6_FirstSeen(_)
C6_FirstSeen(vals) ==
    IF vals = <<>> THEN <<>>
    ELSE <<vals[1]>> \o C6_FirstSeen(SelectSeq(Tail(vals), LAMBDA v : v # vals[1]))

\* The positions of the rows whose class value is `key`, ascending
C6_Positions(key) ==
    SelectSeq([p \in 1..Len(roster_df.rows) |-> p],
              LAMBDA p : roster_df.rows[p][config.class_column_name] = key)

\* C6: the sessions are the distinct class values in first-seen order, one
\* group each; a group holds exactly the rows whose class value is its key,
\* in their original order, restricted to columns-to-print.
C6_Partition ==
    LET keys == C6_FirstSeen(ColumnValues(roster_df, config.class_column_name))
    IN /\ Len(docs) <= Len(keys)
       /\ pc = "done" => Len(docs) = Len(keys)
       /\ \A j \in 1..Len(docs) :
              LET pos == C6_Positions(keys[j])
              IN /\ docs[j].session = keys[j]
                 /\ docs[j].frame.columns = config.columns_to_print
                 /\ docs[j].frame.index = [n \in 1..Len(pos) |-> roster_df.index[pos[n]]]
                 /\ docs[j].frame.rows =
                        [n \in 1..Len(pos) |->
                            [c \in Range(config.columns_to_print) |->
                                roster_df.rows[pos[n]][c]]]

\* C7: in a production run the transient directory is deleted, on any way
\* out, only after the wait that follows the last dispatch.
C7_WaitBeforeTeardown ==
    (~DEBUG /\ dirs.temp = "deleted" /\ dispatched # <<>>) => waited

\* C8: the mode never changes and decides every dispatch: in debug mode each
\* document is opened, never printed, and lies in the fixed ".temp" folder,
\* which the run never deletes; in production mode each document is printed
\* and lies in the transient directory.
C8_ModeDecidesDispatch ==
    /\ dirs.local # "deleted"
    /\ DEBUG => dirs.temp = "absent"
    /\ Len(docs) = Len(dispatched)
    /\ \A j \in 1..Len(dispatched) :
           /\ dispatched[j].path = docs[j].path
           /\ IF DEBUG
              THEN /\ dispatched[j].operation = "open"
                   /\ dispatched[j].dir = tLocalDir
                   /\ SubSeq(docs[j].path, 1, Len(tLocalDir) + 1) = tLocalDir \o <<"/">>
                   /\ dirs.local = "exists"
              ELSE /\ dispatched[j].operation = "print"
                   /\ dispatched[j].dir = tTempDir
                   /\ SubSeq(docs[j].path, 1, Len(tTempDir) + 1) = tTempDir \o <<"/">>
                   /\ dirs.temp \in {"exists", "deleted"}

C8_Witness == DEBUG /\ pc = "done" /\ Len(dispatched) >= 2

\* The join of the first n sources of a rule for a row, read left to right:
\* a missing source adds nothing, the first present one adds its text, and
\* each later one the separator and its text
RECURSIVE C9_JoinedUpTo(_, _, _)
C9_JoinedUpTo(row, r, n) ==
    IF n = 0 THEN [text |-> <<>>, any |-> FALSE]
    ELSE LET before == C9_JoinedUpTo(row, r, n - 1)
             v == row[r.old_columns[n]]
         IN IF isna(v) THEN before
            ELSE [text |-> IF before.any THEN before.text \o r.separator \o ToStr(v)
                           ELSE ToStr(v),
                  any |-> TRUE]

\* C9: for every applied rule and every row, the new column holds the texts
\* of the row's present source values, in source order, joined by the
\* separator: "Ann 12" from Ann and 12, "Ann" alone when the other source is
\* missing, and the empty string when all are.
C9_MergedValues ==
    /\ \A n \in 1..Applied : \A j \in 1..Len(roster_df.rows) :
           roster_df.rows[j][Rules[n].new_name] =
               Str(C9_JoinedUpTo(roster_df.rows[j], Rules[n], Len(Rules[n].old_columns)).text)
    /\ (Applied >= 1 /\ Rules[1] = MergeName) =>
           \A j \in 1..Len(roster_df.rows) :
               LET row == roster_df.rows[j]
               IN /\ (row["First"] = Str(tAnn) /\ row["Last"] = Num(12))
                        => row["Name"] = Str(<<"A", "n", "n", " ", "1", "2">>)
                  /\ (row["First"] = Str(tAnn) /\ row["Last"] = NaN)
                        => row["Name"] = Str(tAnn)
                  /\ (row["First"] = NaN /\ row["Last"] = Num(12))
                        => row["Name"] = Str(<<"1", "2">>)
                  /\ (row["First"] = NaN /\ row["Last"] = NaN)
                        => row["Name"] = Str(<<>>)

C9_Witness ==
    /\ Applied >= 1
    /\ Rules[1] = MergeName
    /\ \E a, b, c \in 1..Len(roster_df.rows) :
           /\ roster_df.rows[a]["Name"] = Str(<<"A", "n", "n", " ", "1", "2">>)
           /\ roster_df.rows[b]["First"] = Str(tAnn) /\ roster_df.rows[b]["Last"] = NaN
           /\ roster_df.rows[c]["First"] = NaN /\ roster_df.rows[c]["Name"] = Str(<<>>)

\* C10: after a run that completes without error every row of the roster,
\* rows with a missing class value included, is a data row of exactly one
\* dispatched document, and no dispatched document is without data rows.
C10_EveryRowPrintedOnce ==
    (pc = "done" /\ error = "none") =>
        /\ \A j \in 1..Len(docs) : Len(docs[j].frame.rows) > 0
        /\ \A p \in 1..Len(roster_df.rows) :
               Cardinality({j \in 1..Len(docs) :
                   roster_df.index[p] \in Range(docs[j].frame.index)}) = 1
        /\ \A j \in 1..Len(docs) :
               Len(SelectSeq(docs[j].body, LAMBDA row : row.kind = "normal"))
                   = Len(docs[j].frame.rows)

====
